---- MODULE Spec2Model ----
(***************************************************************************)
(* A model of the SQL Scenario game front end (carlw0194/sql-game):        *)
(* the useGameState hook (player XP / level ladder, level completion),     *)
(* the scoring utilities (calculateChallengeScore, calculateXpEarned,      *)
(* getPlayerTitle), the mock game service (submitSolution) and the         *)
(* leaderboard page (LeaderboardPage: loads, filters, pagination).         *)
(*                                                                         *)
(* Conventions.                                                            *)
(*  - A TypeScript value of type `T | null` or an optional field `f?: T`   *)
(*    is a set with at most one element: {} is null/undefined, {v} is v.   *)
(*  - Each React state setter is applied atomically at the end of the      *)
(*    handler that calls it; a handler always runs on the last rendered    *)
(*    state.                                                               *)
(*  - Times are in tenths of a second (12 is 1.2 s).                       *)
(***************************************************************************)
EXTENDS Integers, Sequences, FiniteSets, TLC

VARIABLES
    player,        \* useGameState: Player | null
    ladderCall,    \* history: the last updatePlayerProgress call, {} if none
    calc,          \* the call of a scoring utility under way, {} if none
    submissions,   \* history: the submitSolution calls made and what they returned
    levelClusters, \* useGameState: LevelCluster[]
    currentLevel,  \* useGameState: Level | null
    markCall,      \* history: the last markLevelCompleted call, {} if none
    lbPlayer,             \* LeaderboardPage: player, Player | null
    isLoadingPlayer,      \* LeaderboardPage: loadPlayerData is under way
    leaderboardType,      \* LeaderboardPage: 'global' | 'friends' | 'regional'
    leaderboardData,      \* LeaderboardPage: LeaderboardEntry[]
    isLoadingLeaderboard, \* LeaderboardPage
    currentPage,          \* LeaderboardPage
    totalPages,           \* LeaderboardPage
    searchQuery,          \* LeaderboardPage
    region,               \* LeaderboardPage
    pendingLoads,         \* loadLeaderboardData calls waiting on their timer,
                          \* oldest first, each with the values it closed over
    leaderboardView,      \* history: the call that set leaderboardData and
                          \* the random number it drew, {} if none
    user,                 \* AuthProvider: User | null
    isLoading,            \* AuthProvider
    error,                \* AuthProvider: string | null
    localStorage,         \* the browser's localStorage: key -> string | null
    checkingAuth,         \* the checkAuthStatus effect of a fresh mount has
                          \* not run yet
    pendingAuth,          \* login and signup calls waiting on their timer,
                          \* oldest first
    authCall,             \* history: the login, logout or signup call that
                          \* finished last, {} if none
    location,             \* the router's current path
    challengeLevel,       \* ChallengePage: level, Level | null
    isLoadingLevel,       \* ChallengePage
    challengeQuery,       \* ChallengePage: query
    challengeHintsUsed,   \* ChallengePage: hintsUsed
    showHints,            \* ChallengePage
    isSubmitting,         \* ChallengePage
    submissionResult,     \* ChallengePage: the result shown, or null
    pendingSubmissions,   \* submitSolution calls that have not settled
    navigateTimers,       \* the paths of the navigate timers still to fire
    isGenerating,         \* AIMentor
    mentorTimers,         \* AIMentor: the requestHint timers still to fire,
                          \* each with the hintsUsed its onRequestHint
                          \* closed over
    received,             \* history: the result handleSubmitSolution
                          \* received last, {} if none
    submitCall,           \* history: the last handleSubmitSolution call and
                          \* whether it went past its guard, {} if none
    apiCall,              \* apiRequest: the request under way, {} if none
    apiOutcome,           \* apiRequest: how the last request settled
    errors,               \* ErrorProvider: AppError[]
    timeouts,             \* ErrorNotification: ids whose timer is set
    effectPending,        \* ErrorNotification: errors changed and the
                          \* effect has not run again yet
    nextErrorId,          \* the ids addError has generated so far, plus 1
    errorCall             \* history: the last operation on errors

ladderVars == <<player, ladderCall>>

scoringVars == <<calc>>

submitVars == <<submissions>>

progressVars == <<levelClusters, currentLevel, markCall>>

leaderboardVars ==
    <<lbPlayer, isLoadingPlayer, leaderboardType, leaderboardData,
      isLoadingLeaderboard, currentPage, totalPages, searchQuery, region,
      pendingLoads, leaderboardView>>

authVars ==
    <<user, isLoading, error, localStorage, checkingAuth, pendingAuth,
      authCall>>

challengeVars ==
    <<location, challengeLevel, isLoadingLevel, challengeQuery,
      challengeHintsUsed, showHints, isSubmitting, submissionResult, pendingSubmissions, navigateTimers,
      isGenerating, mentorTimers, received, submitCall>>

apiVars == <<apiCall, apiOutcome>>

errorVars == <<errors, timeouts, effectPending, nextErrorId, errorCall>>

\* The state of the pages and providers other than the game state
pageVars == <<authVars, challengeVars, apiVars, errorVars>>

\* The game state, the scoring calls and the leaderboard
gameVars ==
    <<ladderVars, scoringVars, submitVars, progressVars, leaderboardVars>>

vars == <<gameVars, pageVars>>

\* All the state but one provider's or page's
exceptAuthVars == <<gameVars, challengeVars, apiVars, errorVars>>

exceptChallengeVars == <<gameVars, authVars, apiVars, errorVars>>

exceptApiVars == <<gameVars, authVars, challengeVars, errorVars>>

exceptErrorVars == <<gameVars, authVars, challengeVars, apiVars>>

(***************************************************************************)
(* Bounds of the model.                                                    *)
(***************************************************************************)
\* updatePlayerProgress is not applied to a player who reached this level
MaxLevel == 10

\* calculateChallengeScore is tried on execution times 0..MaxTime, optimal
\* times 1..MaxOptimalTime (tenths of a second) and 0..MaxHints hints
MaxTime == 16

MaxOptimalTime == 8

MaxHints == 12

\* submitSolution calls recorded
MaxSubmissions == 2

\* levels of the first cluster ("More levels would be defined here")
NumLevels == 3

\* loadLeaderboardData calls that wait on their timer at the same time
MaxPendingLoads == 2

\* getPlayerTitle is tried on the levels 1..MaxTitleLevel
MaxTitleLevel == 60

\* login and signup calls that wait on their timer at the same time
MaxPendingAuth == 2

\* Navigate timers of the challenge page that wait at the same time
MaxNavigateTimers == 2

\* Errors addError is called for
MaxErrors == 3

(***************************************************************************)
(* JavaScript helpers.                                                     *)
(***************************************************************************)
Max(a, b) == IF a >= b THEN a ELSE b

Min(a, b) == IF a <= b THEN a ELSE b

\* Math.round(n / d) for integers n and d > 0: the nearest integer, a tie
\* going to the larger one (Math.round(2.5) = 3, Math.round(-2.5) = -2).
\* \div is the floor division, so this is floor(n/d + 1/2).
MathRound(n, d) == (2 * n + d) \div (2 * d)

(***************************************************************************)
(* gameUtils: player titles.                                               *)
(***************************************************************************)
PLAYER_TITLES ==
    1 :> "SQL Novice" @@ 5 :> "Junior DBA" @@ 10 :> "SQL Developer" @@
    15 :> "Database Analyst" @@ 20 :> "Senior DBA" @@
    25 :> "Database Architect" @@ 30 :> "SQL Master" @@
    40 :> "Database Wizard" @@ 50 :> "SQL Legend"

\* getPlayerTitle returning the lowest title the level qualifies for.
getPlayerTitle_lowest(level) ==
    LET titles == {t \in DOMAIN PLAYER_TITLES : t <= level}
    IN  IF titles # {}
        THEN PLAYER_TITLES[CHOOSE t \in titles : \A u \in titles : t <= u]
        ELSE "SQL Novice"

\* Object.entries(PLAYER_TITLES).filter(reqLevel <= level).sort(descending)[0],
\* or 'SQL Novice' when nothing qualifies.
getPlayerTitle(level) ==
    LET titles == {t \in DOMAIN PLAYER_TITLES : t <= level}
    IN  IF titles # {}
        THEN PLAYER_TITLES[CHOOSE t \in titles : \A u \in titles : u <= t]
        ELSE "SQL Novice"

(***************************************************************************)
(* gameService: the player profile.                                        *)
(***************************************************************************)
mockPlayer ==
    [id |-> "player1", username |-> "SQLMaster", level |-> 5,
     title |-> "Junior DBA", xp |-> 450, xpToNextLevel |-> 550]

\* The profiles getPlayerProfile may resolve with: the mock's, and a level-1
\* profile one reward short of its first level-up.
PlayerProfiles ==
    {mockPlayer,
     [id |-> "player1", username |-> "SQLMaster", level |-> 1,
      title |-> "SQL Novice", xp |-> 900, xpToNextLevel |-> 1000]}

\* The xpEarned arguments tried: nothing, a submitSolution reward
\* (Math.floor(score / 2)), calculateXpEarned rewards, and one larger than
\* the thresholds of the first levels.
XpRewards == {0, 30, 150, 400, 1000}

(***************************************************************************)
(* gameUtils: scoring.                                                     *)
(***************************************************************************)
\* calculateChallengeScore with Math.floor in place of Math.round.
calculateChallengeScore_floor(executionTime, optimalTime, usedIndex, indexRequired, hintsUsed) ==
    LET timed == IF executionTime > optimalTime
                 THEN 100 - Min(30, (20 * (executionTime - optimalTime))
                                        \div optimalTime)
                 ELSE 100
        indexed == IF indexRequired /\ ~usedIndex THEN timed - 20 ELSE timed
    IN  Max(0, indexed - hintsUsed * 10)

\* calculateChallengeScore without the final Math.max(0, score).
calculateChallengeScore_noMax(executionTime, optimalTime, usedIndex, indexRequired, hintsUsed) ==
    LET timed == IF executionTime > optimalTime
                 THEN 100 - Min(30, MathRound(20 * (executionTime - optimalTime),
                                              optimalTime))
                 ELSE 100
        indexed == IF indexRequired /\ ~usedIndex THEN timed - 20 ELSE timed
    IN  indexed - hintsUsed * 10

\* calculateChallengeScore. timeRatio > 1 is executionTime > optimalTime,
\* and (timeRatio - 1) * 20 is 20 * (executionTime - optimalTime) /
\* optimalTime, here rounded exactly. On the times tried (and one tenth
\* beyond each bound) the double-precision evaluation of the source
\* expression rounds to the same integer.
calculateChallengeScore(executionTime, optimalTime, usedIndex, indexRequired, hintsUsed) ==
    LET timed == IF executionTime > optimalTime
                 THEN 100 - Min(30, MathRound(20 * (executionTime - optimalTime),
                                              optimalTime))
                 ELSE 100
        indexed == IF indexRequired /\ ~usedIndex THEN timed - 20 ELSE timed
    IN  Max(0, indexed - hintsUsed * 10)

baseXp ==
    [beginner |-> 50, intermediate |-> 100, advanced |-> 200, expert |-> 400]

\* The difficulty arguments tried: the four tiers and a string that is none.
DifficultyInputs ==
    {"beginner", "intermediate", "advanced", "expert", "legendary"}

\* calculateXpEarned with Math.floor in place of Math.round.
calculateXpEarned_floor(difficulty, score) ==
    LET base == IF difficulty \in DOMAIN baseXp
                THEN baseXp[difficulty] ELSE baseXp.beginner
    IN  ((base * score) \div 500) * 5

\* calculateXpEarned: base = baseXp[difficulty] || baseXp.beginner, then
\* Math.round((base * (score / 100)) / 5) * 5.
calculateXpEarned(difficulty, score) ==
    LET base == IF difficulty \in DOMAIN baseXp
                THEN baseXp[difficulty] ELSE baseXp.beginner
    IN  MathRound(base * score, 500) * 5

(***************************************************************************)
(* gameService: submitSolution.                                            *)
(***************************************************************************)
\* The level ids and queries submitted. A query carries the verdict of the
\* correctness check on its result set, which submitSolution never sees.
LevelIds == {1}

Queries ==
    {[text |-> "SELECT * FROM customers WHERE last_purchase_date >= '2023-02-01'",
      correct |-> TRUE],
     [text |-> "SELECT 1", correct |-> FALSE]}

\* What submitSolution(levelId, query) resolves with when
\* Math.floor(Math.random() * 40) is random.
submitSolution(levelId, query, random) ==
    LET score == random + 60
    IN  [score |-> score,
         feedback |-> IF score > 80
                      THEN "Great job! Your query is efficient and meets all requirements."
                      ELSE "Good attempt! Consider using indexes to improve performance.",
         xpEarned |-> score \div 2]

(***************************************************************************)
(* useGameState: the XP / level ladder.                                    *)
(***************************************************************************)
\* updatePlayerProgress with the level-up branch keeping the whole total as
\* the new xp (the threshold is not subtracted).
updatePlayerProgress_noCarry(p, xpEarned) ==
    LET newXp == p.xp + xpEarned
        xpNeeded == p.xpToNextLevel
    IN  IF newXp >= xpNeeded
        THEN [p EXCEPT !.level = p.level + 1,
                       !.xp = newXp,
                       !.xpToNextLevel = MathRound(xpNeeded * 3, 2)]
        ELSE [p EXCEPT !.xp = newXp]

\* The player object updatePlayerProgress passes to setPlayer: p is the
\* current (non-null) player.
updatePlayerProgress(p, xpEarned) ==
    LET newXp == p.xp + xpEarned
        xpNeeded == p.xpToNextLevel
    IN  IF newXp >= xpNeeded
        THEN [p EXCEPT !.level = p.level + 1,
                       !.xp = newXp - xpNeeded,
                       !.xpToNextLevel = MathRound(xpNeeded * 3, 2)]
        ELSE [p EXCEPT !.xp = newXp]

(***************************************************************************)
(* gameService: the level clusters.                                        *)
(***************************************************************************)
\* Level 1 of the mock: completed, score 95, bestTime 120. The levels after
\* it are not completed and carry no score and no bestTime (types: "only
\* present if completed").
mockLevel(id) ==
    IF id = 1
    THEN [id |-> 1, completed |-> TRUE, score |-> {95}, bestTime |-> {120}]
    ELSE [id |-> id, completed |-> FALSE, score |-> {}, bestTime |-> {}]

\* mockLevelClusters: 'SQL Basics' with its levels, and two clusters whose
\* level lists are empty, with the progress values the service stores.
mockLevelClusters ==
    << [id |-> 1, progress |-> 80,
        levels |-> [i \in 1..NumLevels |-> mockLevel(i)]],
       [id |-> 2, progress |-> 30, levels |-> <<>>],
       [id |-> 3, progress |-> 0, levels |-> <<>>] >>

\* getLevelById: the first level with that id in mockLevelClusters, or null
getLevelById(levelId) ==
    LET found == {l \in UNION {{c.levels[j] : j \in 1..Len(c.levels)} :
                                 c \in {mockLevelClusters[i] :
                                         i \in 1..Len(mockLevelClusters)}} :
                     l.id = levelId}
    IN  IF found = {} THEN {} ELSE {CHOOSE l \in found : TRUE}

\* The level ids passed to loadLevel and markLevelCompleted: the levels of
\* the service and one id no level has.
LevelIdInputs == 1..(NumLevels + 1)

\* The scores passed to markLevelCompleted ("0-100")
ScoreInputs == {0, 69, 70, 100}

(***************************************************************************)
(* useGameState: level completion.                                         *)
(***************************************************************************)
\* level.score || 0
OrZero(score) == IF score = {} THEN 0 ELSE CHOOSE v \in score : TRUE

\* markedLevel storing the new score whatever the old one was.
markedLevel_overwrite(level, score) ==
    [level EXCEPT !.completed = TRUE, !.score = {score}]

\* markedLevel taking the completed flag from this attempt alone.
markedLevel_lastAttempt(level, score) ==
    [level EXCEPT !.completed = (score >= 70),
                  !.score = {Max(score, OrZero(level.score))}]

\* markedLevel adding the new score to the stored one.
markedLevel_accumulate(level, score) ==
    [level EXCEPT !.completed = TRUE,
                  !.score = {score + OrZero(level.score)}]

\* {...level, completed: true, score: Math.max(score, level.score || 0)}
markedLevel(level, score) ==
    [level EXCEPT !.completed = TRUE,
                  !.score = {Max(score, OrZero(level.score))}]

\* markLevelCompleted keeping the progress each cluster had before the call.
markLevelCompleted_staleProgress(clusters, levelId, score) ==
    [i \in 1..Len(clusters) |->
        [clusters[i] EXCEPT !.levels =
            [j \in 1..Len(clusters[i].levels) |->
                IF clusters[i].levels[j].id = levelId
                THEN markedLevel(clusters[i].levels[j], score)
                ELSE clusters[i].levels[j]]]]

\* updatedClusters of markLevelCompleted: every cluster with the level
\* levelId marked and its progress computed again.
markLevelCompleted(clusters, levelId, score) ==
    [i \in 1..Len(clusters) |->
        LET cluster == clusters[i]
            updatedLevels ==
                [j \in 1..Len(cluster.levels) |->
                    IF cluster.levels[j].id = levelId
                    THEN markedLevel(cluster.levels[j], score)
                    ELSE cluster.levels[j]]
            completedLevels ==
                Cardinality({j \in 1..Len(updatedLevels) :
                                updatedLevels[j].completed})
            progress ==
                IF completedLevels > 0
                THEN MathRound(completedLevels * 100, Len(updatedLevels))
                ELSE 0
        IN  [cluster EXCEPT !.levels = updatedLevels, !.progress = progress]]

(***************************************************************************)
(* JavaScript strings.                                                     *)
(***************************************************************************)
\* The lower-case letter of each upper-case letter
LowerCaseLetter ==
    ("A" :> "a") @@
    ("B" :> "b") @@
    ("C" :> "c") @@
    ("D" :> "d") @@
    ("E" :> "e") @@
    ("F" :> "f") @@
    ("G" :> "g") @@
    ("H" :> "h") @@
    ("I" :> "i") @@
    ("J" :> "j") @@
    ("K" :> "k") @@
    ("L" :> "l") @@
    ("M" :> "m") @@
    ("N" :> "n") @@
    ("O" :> "o") @@
    ("P" :> "p") @@
    ("Q" :> "q") @@
    ("R" :> "r") @@
    ("S" :> "s") @@
    ("T" :> "t") @@
    ("U" :> "u") @@
    ("V" :> "v") @@
    ("W" :> "w") @@
    ("X" :> "x") @@
    ("Y" :> "y") @@
    ("Z" :> "z")

\* String.prototype.toLowerCase: every upper-case letter is replaced by its
\* lower-case letter, every other character is kept.
RECURSIVE toLowerCase(_)
toLowerCase(s) ==
    IF Len(s) = 0 THEN ""
    ELSE LET ch == SubSeq(s, 1, 1)
         IN  (IF ch \in DOMAIN LowerCaseLetter THEN LowerCaseLetter[ch]
              ELSE ch) \o toLowerCase(SubSeq(s, 2, Len(s)))

\* String.prototype.includes: q occurs in s at some position
includes(s, q) ==
    \E i \in 1..(Len(s) - Len(q) + 1) : SubSeq(s, i, i + Len(q) - 1) = q

\* Array.prototype.slice(start, end) for 0 <= start <= end
slice(s, start, end) ==
    IF start >= Len(s) THEN <<>>
    ELSE SubSeq(s, start + 1, Min(end, Len(s)))

\* Math.ceil(n / d) for n >= 0, d > 0
MathCeil(n, d) == (n + d - 1) \div d

(***************************************************************************)
(* LeaderboardPage: the leaderboard lists.                                 *)
(***************************************************************************)
\* A LeaderboardEntry (level, badges and avatarUrl are only displayed and
\* left out); isCurrentPlayer is false where the source leaves it out.
LeaderboardEntry(rank, playerId, playerName, xp, entryRegion, isCurrent) ==
    [rank |-> rank, playerId |-> playerId, playerName |-> playerName,
     xp |-> xp, region |-> entryRegion, isCurrentPlayer |-> isCurrent]

\* mockLeaderboard as written in loadLeaderboardData
mockLeaderboard ==
    <<
       LeaderboardEntry(1, "player1", "SuperDBA", 50000, "North America", FALSE),
       LeaderboardEntry(2, "player2", "QueryMaster42", 47300, "Europe", FALSE),
       LeaderboardEntry(3, "player3", "DataHero", 46500, "Asia", FALSE),
       LeaderboardEntry(4, "player4", "SQLWizard", 45200, "South America", FALSE),
       LeaderboardEntry(5, "player5", "JoinMaster", 44800, "Europe", FALSE),
       LeaderboardEntry(6, "player6", "SchemaGuru", 43500, "North America", FALSE),
       LeaderboardEntry(7, "player7", "IndexNinja", 42100, "Asia", FALSE),
       LeaderboardEntry(8, "player8", "QueryOptimizer", 41000, "Europe", FALSE),
       LeaderboardEntry(9, "player9", "DBArchitect", 40500, "North America", FALSE),
       LeaderboardEntry(10, "player10", "SQLMaster", 39800, "Asia", FALSE),
       LeaderboardEntry(11, "player11", "DataEngineer", 38500, "Europe", FALSE),
       LeaderboardEntry(12, "player12", "BackupWizard", 37200, "North America", FALSE),
       LeaderboardEntry(13, "player13", "TransactionGuru", 36800, "Asia", FALSE),
       LeaderboardEntry(14, "player14", "SecurityMaster", 35500, "Europe", FALSE),
       LeaderboardEntry(15, "player15", "PerformanceTuner", 34200, "North America", FALSE),
       LeaderboardEntry(16, "player16", "ReplicationExpert", 33800, "Asia", FALSE),
       LeaderboardEntry(17, "player17", "SQLDeveloper", 32500, "Europe", FALSE),
       LeaderboardEntry(18, "player18", "DataModeler", 31200, "North America", FALSE),
       LeaderboardEntry(19, "player19", "CloudDBExpert", 30800, "Asia", FALSE),
       LeaderboardEntry(20, "player20", "SQLAnalyst", 29500, "Europe", FALSE)
    >>

\* The entry of the current player: rank Math.floor(Math.random() * 100) + 21
\* where randomDraw is Math.floor(Math.random() * 100).
currentPlayerEntry(p, randomDraw) ==
    LeaderboardEntry(randomDraw + 21, p.id, p.username, p.xp, "Europe", TRUE)

\* The friends list; its fourth entry is the player, or 'currentPlayer' /
\* 'You' / 30000 when no player is loaded (player?.xp || 30000).
friendsLeaderboard(pl) ==
    <<
       LeaderboardEntry(1, "friend1", "BestSQLBuddy", 42000, "Europe", FALSE),
       LeaderboardEntry(2, "friend2", "CodeFriend", 38500, "North America",
                        FALSE),
       LeaderboardEntry(3, "friend3", "DevBuddy", 35200, "Asia", FALSE),
       IF pl = {}
       THEN LeaderboardEntry(4, "currentPlayer", "You", 30000, "Europe", TRUE)
       ELSE LET p == CHOOSE q \in pl : TRUE
            IN  LeaderboardEntry(4, p.id, p.username,
                                 IF p.xp = 0 THEN 30000 ELSE p.xp,
                                 "Europe", TRUE),
       LeaderboardEntry(5, "friend4", "SQLPal", 28500, "South America", FALSE)
    >>

\* entries.sort((a, b) => a.rank - b.rank): ascending rank, entries of equal
\* rank in the order they had (the sort is stable).
sortByRank(entries) ==
    LET position(i) ==
            Cardinality({j \in 1..Len(entries) :
                            \/ entries[j].rank < entries[i].rank
                            \/ /\ entries[j].rank = entries[i].rank
                               /\ j <= i})
    IN  [k \in 1..Len(entries) |->
            entries[CHOOSE i \in 1..Len(entries) : position(i) = k]]

\* The list loadLeaderboardData hands to setLeaderboardData, from the values
\* the call closed over and the random number it draws.
loadLeaderboardData(type, pl, selectedRegion, query, randomDraw) ==
    LET withPlayer ==
            IF pl # {} /\ type = "global"
            THEN Append(mockLeaderboard,
                        currentPlayerEntry(CHOOSE p \in pl : TRUE, randomDraw))
            ELSE mockLeaderboard
        byRegion ==
            IF selectedRegion # "all" /\ type = "global"
            THEN SelectSeq(withPlayer, LAMBDA e : e.region = selectedRegion)
            ELSE withPlayer
        bySearch ==
            IF query # ""
            THEN SelectSeq(byRegion,
                           LAMBDA e : includes(toLowerCase(e.playerName),
                                               toLowerCase(query)))
            ELSE byRegion
    IN  IF type = "friends" THEN friendsLeaderboard(pl)
        ELSE IF type = "regional"
        THEN SelectSeq(mockLeaderboard, LAMBDA e : e.region = "Europe")
        ELSE sortByRank(bySearch)

\* The three leaderboard buttons
LeaderboardTypes == {"global", "friends", "regional"}

\* The options of the region select tried: 'all', the region of the
\* player's entry, a region of other entries and a region of no entry
RegionOptions == {"all", "Europe", "Asia", "Africa"}

\* Texts typed into the search box
SearchInputs == {"", "sql", "DATA"}

\* Values of Math.floor(Math.random() * 100) tried: the least two and the
\* greatest
RandomDraws == {0, 1, 99}

\* LeaderboardPage after its first render: the useState initial values, with
\* loadPlayerData and the first loadLeaderboardData under way.
InitLeaderboard ==
    /\ lbPlayer = {}
    /\ isLoadingPlayer = TRUE
    /\ leaderboardType = "global"
    /\ leaderboardData = <<>>
    /\ isLoadingLeaderboard = TRUE
    /\ currentPage = 1
    /\ totalPages = 1
    /\ searchQuery = ""
    /\ region = "all"
    /\ pendingLoads = << [leaderboardType |-> "global", player |-> {},
                          region |-> "all", searchQuery |-> ""] >>
    /\ leaderboardView = {}

(***************************************************************************)
(* AuthProvider: users, credentials and the stored session.                *)
(***************************************************************************)
\* JSON.stringify of a User: the text lists its properties in the order
\* they were written.
JSONstringify(u) ==
    << <<"id", u.id>>, <<"username", u.username>>, <<"email", u.email>>,
       <<"role", u.role>> >>

\* JSON.parse of such a text: the object with the properties listed
JSONparse(text) ==
    LET value(key) ==
            text[CHOOSE k \in 1..Len(text) : text[k][1] = key][2]
    IN  [id |-> value("id"), username |-> value("username"),
         email |-> value("email"), role |-> value("role")]

\* userData of login
loginUserData ==
    [id |-> "user1", username |-> "SQLMaster", email |-> "demo@example.com",
     role |-> "player"]

\* mockUser of signup
signupMockUser(username, email) ==
    [id |-> "new-user", username |-> username, email |-> email,
     role |-> "player"]

\* The credentials typed into the login form: the demo account's, and the
\* demo account's email with another password
LoginInputs ==
    {[email |-> "demo@example.com", password |-> "password"],
     [email |-> "demo@example.com", password |-> "wrong-password"]}

\* The registration typed into the signup form
SignupInputs ==
    {[username |-> "NewPlayer", email |-> "new@example.com",
      password |-> "Secret123"]}

\* localStorage.setItem(key, value) and localStorage.removeItem(key)
setItem(storage, key, value) == [storage EXCEPT ![key] = {value}]

removeItem(storage, key) == [storage EXCEPT ![key] = {}]

\* The sequence without its k-th element
RemoveAt(seq, k) == SubSeq(seq, 1, k - 1) \o SubSeq(seq, k + 1, Len(seq))

\* AuthProvider after its first render in a browser without a stored
\* session: the useState initial values, checkAuthStatus still to run.
InitAuth ==
    /\ user = {}
    /\ isLoading = TRUE
    /\ error = {}
    /\ localStorage = [key \in {"user", "token"} |-> {}]
    /\ checkingAuth = TRUE
    /\ pendingAuth = <<>>
    /\ authCall = {}

(***************************************************************************)
(* ChallengePage.                                                          *)
(***************************************************************************)
\* The route of the challenge page for level 1, and where it navigates to
ChallengePath == "/challenge/1"

ResultsPath == "/challenge-results/1"

CareerPath == "/career"

\* The challenge of level 1 of mockLevelClusters, with the fields the
\* challenge page reads
mockChallenge ==
    [initialQuery |-> "SELECT * FROM customers",
     hints |-> <<"Use the WHERE clause to filter by date",
                 "Compare last_purchase_date with a specific date">>]

\* What the page keeps of the level getLevelById(levelId) resolves with,
\* or null
levelData(levelId) ==
    {[id |-> l.id, challenge |-> mockChallenge] : l \in getLevelById(levelId)}

\* String.prototype.trim, for texts padded with spaces
RECURSIVE trim(_)
trim(text) ==
    IF Len(text) = 0 THEN text
    ELSE IF SubSeq(text, 1, 1) = " " THEN trim(SubSeq(text, 2, Len(text)))
    ELSE IF SubSeq(text, Len(text), Len(text)) = " "
    THEN trim(SubSeq(text, 1, Len(text) - 1))
    ELSE text

\* The queries the editor hands to handleQueryExecute: executeQuery
\* returns early on a blank query and reports only statements it knows.
ExecutedQueries ==
    {"SELECT * FROM customers WHERE last_purchase_date >= '2023-02-01'",
     "  DELETE FROM customers  "}

\* The values Math.floor(Math.random() * 40) takes in submitSolution:
\* the ends of its range and the two values around the score 70
SubmitRandoms == {0, 9, 10, 39}

\* ChallengePage and AIMentor after their first render on /challenge/1
InitChallenge ==
    /\ location = ChallengePath
    /\ challengeLevel = {}
    /\ isLoadingLevel = TRUE
    /\ challengeQuery = ""
    /\ challengeHintsUsed = 0
    /\ showHints = FALSE
    /\ isSubmitting = FALSE
    /\ submissionResult = {}
    /\ pendingSubmissions = <<>>
    /\ navigateTimers = <<>>
    /\ isGenerating = FALSE
    /\ mentorTimers = <<>>
    /\ received = {}
    /\ submitCall = {}

(***************************************************************************)
(* apiRequest.                                                             *)
(***************************************************************************)
\* The error objects: the three classes of the api module and the built-in
\* ones, told apart (instanceof) by their class name
ErrorObject(name, message) == [name |-> name, message |-> message]

\* The method options
Methods == {"GET", "POST", "PUT", "DELETE", "PATCH"}

\* getCsrfToken(): the value of the XSRF-TOKEN cookie, or null
CsrfTokens == {{}, {"csrf-1"}}

\* requestHeaders as name/value pairs
requestHeaders(method, token, csrfToken) ==
    {<<"Content-Type", "application/json">>, <<"Accept", "application/json">>}
    \cup {<<"Authorization", "Bearer " \o t>> : t \in token}
    \cup (IF method # "GET"
          THEN {<<"X-CSRF-Token", c>> : c \in csrfToken}
          ELSE {})

\* The bodies servers answer with, and what JSON.parse makes of them: the
\* object as key/value pairs, or nothing when the text is not JSON
JSONparseBody(text) ==
    CASE text = "{\"level\":\"1\"}" -> {{<<"level", "1">>}}
      [] text = "{\"message\":\"Level not found\"}" ->
            {{<<"message", "Level not found">>}}
      [] text = "{}" -> {{}}
      [] OTHER -> {}

\* The responses fetch resolves with
Responses ==
    {[ok |-> TRUE, status |-> 200, statusText |-> "OK",
      contentType |-> {"application/json"}, body |-> "{\"level\":\"1\"}"],
     [ok |-> TRUE, status |-> 200, statusText |-> "OK",
      contentType |-> {"application/json"}, body |-> "<html>maintenance</html>"],
     [ok |-> TRUE, status |-> 200, statusText |-> "OK",
      contentType |-> {"text/plain"}, body |-> "pong"],
     [ok |-> TRUE, status |-> 204, statusText |-> "No Content",
      contentType |-> {}, body |-> ""],
     [ok |-> FALSE, status |-> 404, statusText |-> "Not Found",
      contentType |-> {"application/json"},
      body |-> "{\"message\":\"Level not found\"}"],
     [ok |-> FALSE, status |-> 429, statusText |-> "Too Many Requests",
      contentType |-> {"application/json"}, body |-> "{}"],
     [ok |-> FALSE, status |-> 502, statusText |-> "Bad Gateway",
      contentType |-> {"text/html"}, body |-> "<html>Bad Gateway</html>"]}

\* The messages of the TypeError fetch rejects with when it cannot connect
\* (Chrome, Firefox)
FetchFailures ==
    {"Failed to fetch", "NetworkError when attempting to fetch resource."}

\* How a promise settles
Resolved(value) == [kind |-> "resolved", value |-> {value}, error |-> {}]

Rejected(err) == [kind |-> "rejected", value |-> {}, error |-> {err}]

\* response.json(): the body parsed as JSON, or a SyntaxError
responseJson(response) ==
    IF JSONparseBody(response.body) # {}
    THEN Resolved([json |-> JSONparseBody(response.body), text |-> {}])
    ELSE Rejected(ErrorObject("SyntaxError",
                              "Unexpected token '<', \"" \o response.body
                                  \o "\" is not valid JSON"))

\* response.text(): the body as text; a body that was read before (by
\* json()) cannot be read again
responseText(response, bodyUsed) ==
    IF bodyUsed
    THEN Rejected(ErrorObject("TypeError",
             "Failed to execute 'text' on 'Response': body stream already read"))
    ELSE Resolved([json |-> {}, text |-> {response.body}])

\* The catch block of apiRequest: what it throws for the error caught
apiRequestCatch(err) ==
    IF err.name = "ApiError" \/ err.name = "TimeoutError"
    THEN Rejected(err)
    ELSE IF err.name = "TypeError" /\ includes(err.message, "fetch")
    THEN Rejected(ErrorObject("NetworkError",
                              "Network error: Unable to connect to the server"))
    ELSE Rejected(ErrorObject("Error", "Unexpected error: " \o err.message))

\* The try block of apiRequest once fetch has resolved with response
apiRequestResponse(response) ==
    IF ~response.ok
    THEN LET parsed == responseJson(response)
             fallback == responseText(response, TRUE)
         IN  IF parsed.kind = "resolved"
             THEN LET errorData ==
                          (CHOOSE v \in parsed.value : TRUE).json
                      message ==
                          {pair[2] : pair \in
                              {q \in UNION errorData : q[1] = "message"}}
                  IN  apiRequestCatch(
                          ErrorObject("ApiError",
                              IF message # {} THEN CHOOSE m \in message : TRUE
                              ELSE "API error: " \o response.statusText))
             ELSE IF fallback.kind = "resolved"
             THEN apiRequestCatch(
                      ErrorObject("ApiError",
                                  "API error: " \o response.statusText))
             ELSE apiRequestCatch(CHOOSE err \in fallback.error : TRUE)
    ELSE LET body ==
                 IF \E contentType \in response.contentType :
                        includes(contentType, "application/json")
                 THEN responseJson(response)
                 ELSE responseText(response, FALSE)
         IN  IF body.kind = "resolved" THEN body
             ELSE apiRequestCatch(CHOOSE err \in body.error : TRUE)

\* No apiRequest has been made
InitApi ==
    /\ apiCall = {}
    /\ apiOutcome = {}

(***************************************************************************)
(* ErrorProvider and ErrorNotification.                                    *)
(***************************************************************************)
\* The errors handed to addError: each severity, and an error with a retry
\* function
ErrorInputs ==
    {[severity |-> "info", retry |-> FALSE],
     [severity |-> "warning", retry |-> FALSE],
     [severity |-> "error", retry |-> FALSE],
     [severity |-> "error", retry |-> TRUE],
     [severity |-> "critical", retry |-> FALSE]}

\* removeError(id) applied to the list prevErrors
removeError(prevErrors, id) == SelectSeq(prevErrors, LAMBDA e : e.id # id)

\* ErrorNotification setting its timer for every error.
autoDismissed_anySeverity(appError) == TRUE

\* ErrorNotification: the errors its effect sets the 5 s timer for
autoDismissed(appError) ==
    appError.severity = "info" \/ appError.severity = "warning"

\* ErrorProvider and ErrorNotification after their first render
InitErrors ==
    /\ errors = <<>>
    /\ timeouts = {}
    /\ effectPending = FALSE
    /\ nextErrorId = 1
    /\ errorCall = {}

\* The pages and providers other than the game state after their first
\* render
InitPages ==
    /\ InitAuth
    /\ InitChallenge
    /\ InitApi
    /\ InitErrors

\* The state after the first render: nothing is loaded yet.
Init ==
    /\ player = {}
    /\ ladderCall = {}
    /\ calc = {}
    /\ submissions = <<>>
    /\ levelClusters = <<>>
    /\ currentLevel = {}
    /\ markCall = {}
    /\ InitLeaderboard
    /\ InitPages

\* loadPlayerProfile: setPlayer(await getPlayerProfile())
LoadPlayerProfile ==
    /\ \E profile \in PlayerProfiles : player' = {profile}
    /\ ladderCall' = {}
    /\ UNCHANGED <<scoringVars, submitVars, progressVars, leaderboardVars,
                   pageVars>>

\* updatePlayerProgress(xpEarned): returns at once when player is null
UpdatePlayerProgress ==
    \E xpEarned \in XpRewards :
        \/ /\ player = {}
           /\ UNCHANGED vars
        \/ \E p \in player :
              /\ p.level < MaxLevel
              /\ player' = {updatePlayerProgress(p, xpEarned)}
              /\ ladderCall' = {[xpEarned |-> xpEarned, before |-> p]}
              /\ UNCHANGED <<scoringVars, submitVars, progressVars,
                             leaderboardVars, pageVars>>

Next ==
    \/ LoadPlayerProfile
    \/ UpdatePlayerProgress

\* The level ladder of useGameState.
Spec == Init /\ [][Next]_vars

\* The calls of the scoring utilities that are tried: every argument within
\* the bounds, no result yet.
ScoringCalls ==
    {[fn |-> "calculateChallengeScore", executionTime |-> executionTime,
      optimalTime |-> optimalTime, usedIndex |-> usedIndex,
      indexRequired |-> indexRequired, hintsUsed |-> hintsUsed,
      result |-> {}] :
        executionTime \in 0..MaxTime, optimalTime \in 1..MaxOptimalTime,
        usedIndex \in BOOLEAN, indexRequired \in BOOLEAN,
        hintsUsed \in 0..MaxHints}
    \cup
    {[fn |-> "calculateXpEarned", difficulty |-> difficulty, score |-> score,
      result |-> {}] :
        difficulty \in DifficultyInputs, score \in 0..100}
    \cup
    {[fn |-> "getPlayerTitle", level |-> level, result |-> {}] :
        level \in 1..MaxTitleLevel}

InitScoring ==
    /\ player = {}
    /\ ladderCall = {}
    /\ calc \in {{c} : c \in ScoringCalls}
    /\ submissions = <<>>
    /\ levelClusters = <<>>
    /\ currentLevel = {}
    /\ markCall = {}
    /\ InitLeaderboard
    /\ InitPages

\* calculateChallengeScore returns
CalculateChallengeScore ==
    /\ \E c \in calc :
          /\ c.fn = "calculateChallengeScore"
          /\ c.result = {}
          /\ calc' = {[c EXCEPT !.result =
                         {calculateChallengeScore(c.executionTime,
                              c.optimalTime, c.usedIndex, c.indexRequired,
                              c.hintsUsed)}]}
    /\ UNCHANGED <<ladderVars, submitVars, progressVars, leaderboardVars,
                   pageVars>>

\* calculateXpEarned returns
CalculateXpEarned ==
    /\ \E c \in calc :
          /\ c.fn = "calculateXpEarned"
          /\ c.result = {}
          /\ calc' = {[c EXCEPT !.result =
                         {calculateXpEarned(c.difficulty, c.score)}]}
    /\ UNCHANGED <<ladderVars, submitVars, progressVars, leaderboardVars,
                   pageVars>>

\* getPlayerTitle returns
GetPlayerTitle ==
    /\ \E c \in calc :
          /\ c.fn = "getPlayerTitle"
          /\ c.result = {}
          /\ calc' = {[c EXCEPT !.result = {getPlayerTitle(c.level)}]}
    /\ UNCHANGED <<ladderVars, submitVars, progressVars, leaderboardVars,
                   pageVars>>

NextScoring ==
    \/ GetPlayerTitle
    \/ CalculateChallengeScore
    \/ CalculateXpEarned

\* The scoring utilities, applied to every argument within the bounds.
SpecScoring == InitScoring /\ [][NextScoring]_vars

\* submitSolution(levelId, query), with the value Math.random() took
SubmitSolution ==
    /\ Len(submissions) < MaxSubmissions
    /\ \E levelId \in LevelIds, query \in Queries, random \in 0..39 :
          submissions' = Append(submissions,
              [levelId |-> levelId, query |-> query,
               result |-> submitSolution(levelId, query, random)])
    /\ UNCHANGED <<ladderVars, scoringVars, progressVars, leaderboardVars,
                   pageVars>>

NextSubmit == SubmitSolution

\* The mock evaluation service.
SpecSubmit == Init /\ [][NextSubmit]_vars

\* loadLevelClusters: setLevelClusters(await getLevelClusters())
LoadLevelClusters ==
    /\ levelClusters' = mockLevelClusters
    /\ markCall' = {}
    /\ UNCHANGED <<currentLevel, ladderVars, scoringVars, submitVars,
                   leaderboardVars, pageVars>>

\* loadLevel(levelId): setCurrentLevel(await getLevelById(levelId))
LoadLevel ==
    /\ \E levelId \in LevelIdInputs : currentLevel' = getLevelById(levelId)
    /\ markCall' = {}
    /\ UNCHANGED <<levelClusters, ladderVars, scoringVars, submitVars,
                   leaderboardVars, pageVars>>

\* markLevelCompleted(levelId, score)
MarkLevelCompleted ==
    /\ \E levelId \in LevelIdInputs, score \in ScoreInputs :
          /\ levelClusters' = markLevelCompleted(levelClusters, levelId, score)
          /\ currentLevel' =
                IF \E l \in currentLevel : l.id = levelId
                THEN {markedLevel(l, score) : l \in currentLevel}
                ELSE currentLevel
          /\ markCall' = {[levelId |-> levelId, score |-> score,
                            clusters |-> levelClusters,
                            current |-> currentLevel]}
    /\ UNCHANGED <<ladderVars, scoringVars, submitVars, leaderboardVars,
                   pageVars>>

NextProgress ==
    \/ LoadLevelClusters
    \/ LoadLevel
    \/ MarkLevelCompleted

\* Level completion in useGameState.
SpecProgress == Init /\ [][NextProgress]_vars

\* xpEarned arguments below zero
NegativeXpRewards == {-1, -500}

\* updatePlayerProgress(xpEarned) with xpEarned < 0, on a player whose xp is
\* not below zero yet
UpdatePlayerProgressNegative ==
    /\ \E p \in player, xpEarned \in NegativeXpRewards :
          /\ p.level < MaxLevel
          /\ p.xp >= 0
          /\ player' = {updatePlayerProgress(p, xpEarned)}
          /\ ladderCall' = {[xpEarned |-> xpEarned, before |-> p]}
    /\ UNCHANGED <<scoringVars, submitVars, progressVars, leaderboardVars,
                   pageVars>>

NextAnyXp ==
    \/ LoadPlayerProfile
    \/ UpdatePlayerProgressNegative

\* The XP / level ladder under xpEarned arguments below zero.
SpecAnyXp == Init /\ [][NextAnyXp]_vars

(***************************************************************************)
(* LeaderboardPage.                                                        *)
(***************************************************************************)
\* The effect on [leaderboardType, player, region, searchQuery]: a new
\* loadLeaderboardData call closes over the four values, sets
\* isLoadingLeaderboard and waits on its 800 ms timer.
StartLoad(type, pl, selectedRegion, query) ==
    /\ Len(pendingLoads) < MaxPendingLoads
    /\ pendingLoads' =
          Append(pendingLoads,
                 [leaderboardType |-> type, player |-> pl,
                  region |-> selectedRegion, searchQuery |-> query])
    /\ isLoadingLeaderboard' = TRUE

\* loadPlayerData: setPlayer(await getPlayerProfile()); the new player runs
\* the leaderboard effect.
LoadPlayerData ==
    /\ isLoadingPlayer
    /\ lbPlayer' = {mockPlayer}
    /\ isLoadingPlayer' = FALSE
    /\ StartLoad(leaderboardType, {mockPlayer}, region, searchQuery)
    /\ UNCHANGED <<leaderboardType, leaderboardData, currentPage, totalPages,
                   searchQuery, region, leaderboardView>>
    /\ UNCHANGED <<ladderVars, scoringVars, submitVars, progressVars,
                   pageVars>>

\* handleLeaderboardTypeChange(type); the effect runs when the type changed
HandleLeaderboardTypeChange ==
    /\ \E type \in LeaderboardTypes :
          /\ leaderboardType' = type
          /\ currentPage' = 1
          /\ IF type # leaderboardType
             THEN StartLoad(type, lbPlayer, region, searchQuery)
             ELSE UNCHANGED <<pendingLoads, isLoadingLeaderboard>>
    /\ UNCHANGED <<lbPlayer, isLoadingPlayer, leaderboardData, totalPages,
                   searchQuery, region, leaderboardView>>
    /\ UNCHANGED <<ladderVars, scoringVars, submitVars, progressVars,
                   pageVars>>

\* handleRegionChange: the select is rendered in the global view only and
\* fires on a new value.
HandleRegionChange ==
    /\ leaderboardType = "global"
    /\ \E value \in RegionOptions \ {region} :
          /\ region' = value
          /\ currentPage' = 1
          /\ StartLoad(leaderboardType, lbPlayer, value, searchQuery)
    /\ UNCHANGED <<lbPlayer, isLoadingPlayer, leaderboardType,
                   leaderboardData, totalPages, searchQuery, leaderboardView>>
    /\ UNCHANGED <<ladderVars, scoringVars, submitVars, progressVars,
                   pageVars>>

\* handleSearchChange: the input fires on a new value
HandleSearchChange ==
    /\ \E value \in SearchInputs \ {searchQuery} :
          /\ searchQuery' = value
          /\ currentPage' = 1
          /\ StartLoad(leaderboardType, lbPlayer, region, value)
    /\ UNCHANGED <<lbPlayer, isLoadingPlayer, leaderboardType,
                   leaderboardData, totalPages, region, leaderboardView>>
    /\ UNCHANGED <<ladderVars, scoringVars, submitVars, progressVars,
                   pageVars>>

\* The pages the pagination buttons lead to: the numbered buttons, Previous
\* (disabled on page 1) and Next (disabled on the last page). The buttons
\* are rendered when there are entries and more than one page.
PageButtons ==
    IF Len(leaderboardData) > 0 /\ totalPages > 1
    THEN (1..totalPages)
         \cup (IF currentPage = 1 THEN {} ELSE {currentPage - 1})
         \cup (IF currentPage = totalPages THEN {} ELSE {currentPage + 1})
    ELSE {}

\* handlePageChange(page)
HandlePageChange ==
    /\ \E page \in PageButtons : currentPage' = page
    /\ UNCHANGED <<lbPlayer, isLoadingPlayer, leaderboardType,
                   leaderboardData, isLoadingLeaderboard, totalPages,
                   searchQuery, region, pendingLoads, leaderboardView>>
    /\ UNCHANGED <<ladderVars, scoringVars, submitVars, progressVars,
                   pageVars>>

\* The oldest loadLeaderboardData call comes back from its timer: it draws
\* the player's rank when it closed over a player, filters and sorts, and
\* sets leaderboardData, totalPages and isLoadingLeaderboard. The timers all
\* last 800 ms, so the calls come back in the order they were made, and
\* getPlayerProfile (500 ms, started with the first call) is back before.
LoadLeaderboardData ==
    /\ pendingLoads # <<>>
    /\ ~isLoadingPlayer
    /\ LET call == Head(pendingLoads)
       IN  \E randomDraw \in RandomDraws :
              LET filteredData ==
                      loadLeaderboardData(call.leaderboardType, call.player,
                                          call.region, call.searchQuery,
                                          randomDraw)
              IN  /\ leaderboardData' = filteredData
                  /\ totalPages' = MathCeil(Len(filteredData), 10)
                  /\ leaderboardView' =
                        {[call |-> call,
                          randomDraw |-> IF call.player = {} THEN {}
                                         ELSE {randomDraw}]}
    /\ isLoadingLeaderboard' = FALSE
    /\ pendingLoads' = Tail(pendingLoads)
    /\ UNCHANGED <<lbPlayer, isLoadingPlayer, leaderboardType, currentPage,
                   searchQuery, region>>
    /\ UNCHANGED <<ladderVars, scoringVars, submitVars, progressVars,
                   pageVars>>

\* getCurrentPageData with the first entry of page 1 skipped.
getCurrentPageData_zeroBased ==
    slice(leaderboardData, currentPage * 10, currentPage * 10 + 10)

\* getCurrentPageData(): the entries of the current page
getCurrentPageData ==
    LET startIndex == (currentPage - 1) * 10
        endIndex == startIndex + 10
    IN  slice(leaderboardData, startIndex, endIndex)

NextLeaderboard ==
    \/ LoadPlayerData
    \/ HandleLeaderboardTypeChange
    \/ HandleRegionChange
    \/ HandleSearchChange
    \/ HandlePageChange
    \/ LoadLeaderboardData

\* The leaderboard page.
SpecLeaderboard == Init /\ [][NextLeaderboard]_vars

(***************************************************************************)
(* AuthProvider and ProtectedRoute.                                        *)
(***************************************************************************)
\* checkAuthStatus, run by the effect of a fresh mount: the stored user, if
\* any, is parsed and becomes the user. (The texts in localStorage are the
\* ones login and signup stored, so JSON.parse does not throw.)
CheckAuthStatus ==
    /\ checkingAuth
    /\ LET storedUser == localStorage["user"]
       IN  user' = IF storedUser # {}
                   THEN {JSONparse(text) : text \in storedUser}
                   ELSE user
    /\ isLoading' = FALSE
    /\ checkingAuth' = FALSE
    /\ UNCHANGED <<error, localStorage, pendingAuth, authCall>>
    /\ UNCHANGED exceptAuthVars

\* login(email, password) up to its await; the login form is disabled
\* while isLoading
LoginStarts ==
    /\ ~checkingAuth
    /\ ~isLoading
    /\ Len(pendingAuth) < MaxPendingAuth
    /\ \E input \in LoginInputs :
          pendingAuth' =
              Append(pendingAuth,
                     [op |-> "login", email |-> input.email,
                      password |-> input.password])
    /\ isLoading' = TRUE
    /\ UNCHANGED <<user, error, localStorage, checkingAuth, authCall>>
    /\ UNCHANGED exceptAuthVars

\* login after its await (800 ms): the oldest login call goes on
LoginSettles ==
    /\ \E k \in 1..Len(pendingAuth) :
          /\ pendingAuth[k].op = "login"
          /\ \A j \in 1..(k - 1) : pendingAuth[j].op # "login"
          /\ LET call == pendingAuth[k]
             IN  \/ /\ call.email = "demo@example.com"
                    /\ call.password = "password"
                    /\ user' = {loginUserData}
                    /\ localStorage' =
                          setItem(setItem(localStorage, "user",
                                          JSONstringify(loginUserData)),
                                  "token", "mock-jwt-token")
                    /\ error' = error
                    /\ authCall' = {[op |-> "login", ok |-> TRUE]}
                 \/ /\ ~(call.email = "demo@example.com"
                           /\ call.password = "password")
                    /\ error' = {"Invalid email or password"}
                    /\ user' = {}
                    /\ localStorage' = localStorage
                    /\ authCall' = {[op |-> "login", ok |-> FALSE]}
          /\ pendingAuth' = RemoveAt(pendingAuth, k)
    /\ isLoading' = FALSE
    /\ UNCHANGED checkingAuth
    /\ UNCHANGED exceptAuthVars

\* logout()
Logout ==
    /\ ~checkingAuth
    /\ localStorage' = removeItem(removeItem(localStorage, "user"), "token")
    /\ user' = {}
    /\ isLoading' = FALSE
    /\ authCall' = {[op |-> "logout", ok |-> TRUE]}
    /\ UNCHANGED <<error, checkingAuth, pendingAuth>>
    /\ UNCHANGED exceptAuthVars

\* signup(username, email, password) up to its await; the signup form is
\* disabled while isLoading
SignupStarts ==
    /\ ~checkingAuth
    /\ ~isLoading
    /\ Len(pendingAuth) < MaxPendingAuth
    /\ \E input \in SignupInputs :
          pendingAuth' =
              Append(pendingAuth,
                     [op |-> "signup", username |-> input.username,
                      email |-> input.email])
    /\ isLoading' = TRUE
    /\ error' = {}
    /\ UNCHANGED <<user, localStorage, checkingAuth, authCall>>
    /\ UNCHANGED exceptAuthVars

\* signup after its await (1000 ms): the oldest signup call goes on
SignupSettles ==
    /\ \E k \in 1..Len(pendingAuth) :
          /\ pendingAuth[k].op = "signup"
          /\ \A j \in 1..(k - 1) : pendingAuth[j].op # "signup"
          /\ LET call == pendingAuth[k]
                 mockUser == signupMockUser(call.username, call.email)
             IN  /\ localStorage' =
                       setItem(setItem(localStorage, "user",
                                       JSONstringify(mockUser)),
                               "token", "mock-jwt-token")
                 /\ user' = {mockUser}
          /\ pendingAuth' = RemoveAt(pendingAuth, k)
    /\ isLoading' = FALSE
    /\ authCall' = {[op |-> "signup", ok |-> TRUE]}
    /\ UNCHANGED <<error, checkingAuth>>
    /\ UNCHANGED exceptAuthVars

\* clearError()
ClearError ==
    /\ error # {}
    /\ error' = {}
    /\ UNCHANGED <<user, isLoading, localStorage, checkingAuth, pendingAuth,
                   authCall>>
    /\ UNCHANGED exceptAuthVars

\* The page is loaded again: AuthProvider starts from its initial values,
\* the timers of the old page are gone, localStorage is kept.
Reload ==
    /\ ~checkingAuth
    /\ user' = {}
    /\ isLoading' = TRUE
    /\ error' = {}
    /\ checkingAuth' = TRUE
    /\ pendingAuth' = <<>>
    /\ authCall' = {}
    /\ UNCHANGED localStorage
    /\ UNCHANGED exceptAuthVars

\* ProtectedRoute rendering its children while the auth check is running.
ProtectedRoute_noSpinner(requiredRole) ==
    IF user = {} THEN "/login"
    ELSE IF requiredRole # {} /\ {u.role : u \in user} # requiredRole
    THEN "/unauthorized"
    ELSE "children"

\* What ProtectedRoute renders for requiredRole ({} when the property is
\* not given): the spinner, a Navigate to a path, or its children.
\* isAuthenticated is !!user.
ProtectedRoute(requiredRole) ==
    IF isLoading THEN "spinner"
    ELSE IF user = {} THEN "/login"
    ELSE IF requiredRole # {} /\ {u.role : u \in user} # requiredRole
    THEN "/unauthorized"
    ELSE "children"

\* The requiredRole properties a route can carry
RequiredRoles == {{}, {"player"}, {"admin"}}

NextAuth ==
    \/ CheckAuthStatus
    \/ LoginStarts
    \/ LoginSettles
    \/ Logout
    \/ SignupStarts
    \/ SignupSettles
    \/ ClearError
    \/ Reload

\* Authentication.
SpecAuth == Init /\ [][NextAuth]_vars

(***************************************************************************)
(* ChallengePage and the hint button of AIMentor.                          *)
(***************************************************************************)
\* loadLevelData after its await of getLevelById (600 ms)
LoadLevelData ==
    /\ location = ChallengePath
    /\ isLoadingLevel
    /\ challengeLevel' = levelData(1)
    /\ challengeQuery' =
          IF \E l \in levelData(1) : l.challenge.initialQuery # ""
          THEN (CHOOSE l \in levelData(1) : TRUE).challenge.initialQuery
          ELSE challengeQuery
    /\ isLoadingLevel' = FALSE
    /\ UNCHANGED <<location, challengeHintsUsed, showHints, isSubmitting,
                   submissionResult, pendingSubmissions, navigateTimers,
                   isGenerating, mentorTimers, received, submitCall>>
    /\ UNCHANGED exceptChallengeVars

\* handleQueryExecute(executedQuery), called by the editor
HandleQueryExecute ==
    /\ location = ChallengePath
    /\ challengeLevel # {}
    /\ \E executedQuery \in ExecutedQueries : challengeQuery' = executedQuery
    /\ UNCHANGED <<location, challengeLevel, isLoadingLevel,
                   challengeHintsUsed, showHints, isSubmitting,
                   submissionResult, pendingSubmissions, navigateTimers,
                   isGenerating, mentorTimers, received, submitCall>>
    /\ UNCHANGED exceptChallengeVars

\* toggleHints
ToggleHints ==
    /\ location = ChallengePath
    /\ challengeLevel # {}
    /\ showHints' = ~showHints
    /\ UNCHANGED <<location, challengeLevel, isLoadingLevel, challengeQuery,
                   challengeHintsUsed, isSubmitting, submissionResult,
                   pendingSubmissions, navigateTimers, isGenerating,
                   mentorTimers, received, submitCall>>
    /\ UNCHANGED exceptChallengeVars

\* The number of hints of the level shown: level.challenge.hints.length
hintsAvailable ==
    IF challengeLevel = {} THEN 0
    ELSE Len((CHOOSE l \in challengeLevel : TRUE).challenge.hints)

\* handleHintRequest as created by the render in which hintsUsed was
\* closedOverHintsUsed: the value setHintsUsed is left with
handleHintRequest(closedOverHintsUsed, prev) ==
    IF challengeLevel = {} \/ closedOverHintsUsed >= hintsAvailable
    THEN prev
    ELSE prev + 1

\* A click on the Reveal Hint button, rendered while showHints and
\* hintsUsed < hints.length
RevealHint ==
    /\ location = ChallengePath
    /\ challengeLevel # {}
    /\ showHints
    /\ challengeHintsUsed < hintsAvailable
    /\ challengeHintsUsed' = challengeHintsUsed + 1
    /\ UNCHANGED <<location, challengeLevel, isLoadingLevel, challengeQuery,
                   showHints, isSubmitting, submissionResult,
                   pendingSubmissions, navigateTimers, isGenerating,
                   mentorTimers, received, submitCall>>
    /\ UNCHANGED exceptChallengeVars

\* AIMentor.requestHint: a click on the mentor's hint button (disabled while
\* isGenerating or hintInfo.used >= hintInfo.available) sets the 1 s timer;
\* the timer's callback keeps the onRequestHint of this render.
RequestHint ==
    /\ location = ChallengePath
    /\ challengeLevel # {}
    /\ ~isGenerating
    /\ challengeHintsUsed < hintsAvailable
    /\ isGenerating' = TRUE
    /\ mentorTimers' = Append(mentorTimers, [hintsUsed |-> challengeHintsUsed])
    /\ UNCHANGED <<location, challengeLevel, isLoadingLevel, challengeQuery,
                   challengeHintsUsed, showHints, isSubmitting,
                   submissionResult, pendingSubmissions, navigateTimers,
                   received, submitCall>>
    /\ UNCHANGED exceptChallengeVars

\* The mentor's timer fires: onRequestHint() and setIsGenerating(false).
\* On a page that was left the state updates are dropped.
RequestHintTimerFires ==
    /\ mentorTimers # <<>>
    /\ LET timer == Head(mentorTimers)
       IN  IF location = ChallengePath
           THEN /\ challengeHintsUsed' =
                      handleHintRequest(timer.hintsUsed, challengeHintsUsed)
                /\ isGenerating' = FALSE
           ELSE UNCHANGED <<challengeHintsUsed, isGenerating>>
    /\ mentorTimers' = Tail(mentorTimers)
    /\ UNCHANGED <<location, challengeLevel, isLoadingLevel, challengeQuery,
                   showHints, isSubmitting, submissionResult,
                   pendingSubmissions, navigateTimers, received, submitCall>>
    /\ UNCHANGED exceptChallengeVars

\* handleSubmitSolution going on whatever isSubmitting is.
passesSubmitGuard_ignoreSubmitting(currentQuery, submitting) ==
    trim(currentQuery) # ""

\* The guard of handleSubmitSolution on the page of level 1:
\* not (!levelId || !query.trim() || isSubmitting)
passesSubmitGuard(currentQuery, submitting) ==
    /\ trim(currentQuery) # ""
    /\ ~submitting

\* handleSubmitSolution up to its await of submitSolution
HandleSubmitSolution ==
    /\ location = ChallengePath
    /\ Len(navigateTimers) < MaxNavigateTimers
    /\ IF passesSubmitGuard(challengeQuery, isSubmitting)
       THEN /\ isSubmitting' = TRUE
            /\ pendingSubmissions' =
                  Append(pendingSubmissions,
                         [levelId |-> 1, query |-> challengeQuery])
            /\ submitCall' = {[started |-> TRUE, query |-> challengeQuery]}
       ELSE /\ UNCHANGED <<isSubmitting, pendingSubmissions>>
            /\ submitCall' = {[started |-> FALSE, query |-> challengeQuery]}
    /\ UNCHANGED <<location, challengeLevel, isLoadingLevel, challengeQuery,
                   challengeHintsUsed, showHints, submissionResult,
                   navigateTimers, isGenerating, mentorTimers, received>>
    /\ UNCHANGED exceptChallengeVars

\* The navigate timer set only for a score above 70.
schedulesNavigation_above70(result) == result.score > 70

\* handleSubmitSolution: if (result.score >= 70) the navigate timer is set
schedulesNavigation(result) == result.score >= 70

\* handleSubmitSolution after its await (submitSolution resolves after
\* 1500 ms and never rejects): the result is shown and, for a score of 70
\* or more, the navigate timer is set. On a page that was left the state
\* updates are dropped.
SubmissionSettles ==
    /\ pendingSubmissions # <<>>
    /\ \E random \in SubmitRandoms :
          LET call == Head(pendingSubmissions)
              result == submitSolution(call.levelId, call.query, random)
          IN  /\ received' = {result}
              /\ IF location = ChallengePath
                 THEN /\ submissionResult' = {result}
                      /\ isSubmitting' = FALSE
                 ELSE UNCHANGED <<submissionResult, isSubmitting>>
              /\ navigateTimers' =
                    IF schedulesNavigation(result)
                    THEN Append(navigateTimers, ResultsPath)
                    ELSE navigateTimers
    /\ pendingSubmissions' = Tail(pendingSubmissions)
    /\ UNCHANGED <<location, challengeLevel, isLoadingLevel, challengeQuery,
                   challengeHintsUsed, showHints, isGenerating, mentorTimers,
                   submitCall>>
    /\ UNCHANGED exceptChallengeVars

\* A navigate timer fires (1500 ms after the result)
NavigateTimerFires ==
    /\ navigateTimers # <<>>
    /\ location' = Head(navigateTimers)
    /\ navigateTimers' = Tail(navigateTimers)
    /\ UNCHANGED <<challengeLevel, isLoadingLevel, challengeQuery,
                   challengeHintsUsed, showHints, isSubmitting,
                   submissionResult, pendingSubmissions, isGenerating,
                   mentorTimers, received, submitCall>>
    /\ UNCHANGED exceptChallengeVars

\* returnToCareerMode: the Cancel button
ReturnToCareerMode ==
    /\ location = ChallengePath
    /\ location' = CareerPath
    /\ UNCHANGED <<challengeLevel, isLoadingLevel, challengeQuery,
                   challengeHintsUsed, showHints, isSubmitting,
                   submissionResult, pendingSubmissions, navigateTimers,
                   isGenerating, mentorTimers, received, submitCall>>
    /\ UNCHANGED exceptChallengeVars

NextChallenge ==
    \/ LoadLevelData
    \/ HandleQueryExecute
    \/ ToggleHints
    \/ RevealHint
    \/ RequestHint
    \/ RequestHintTimerFires
    \/ HandleSubmitSolution
    \/ SubmissionSettles
    \/ NavigateTimerFires
    \/ ReturnToCareerMode

\* The challenge page.
SpecChallenge == Init /\ [][NextChallenge]_vars

\* The challenge page with its promises settling and its timers firing.
SpecChallengeFair ==
    /\ SpecChallenge
    /\ WF_vars(SubmissionSettles)
    /\ WF_vars(NavigateTimerFires)

(***************************************************************************)
(* apiRequest.                                                             *)
(***************************************************************************)
\* apiRequest(endpoint, options) up to its await of the race between fetch
\* and the timeout
ApiRequest ==
    /\ \A call \in apiCall : call.phase = "settled"
    /\ \E method \in Methods, hasBody \in BOOLEAN, csrfToken \in CsrfTokens :
          apiCall' =
              {[method |-> method,
                headers |-> requestHeaders(method, localStorage["token"],
                                           csrfToken),
                hasBody |-> hasBody /\ method # "GET",
                phase |-> "racing"]}
    /\ apiOutcome' = {}
    /\ UNCHANGED exceptApiVars

\* The timeout fires before fetch has settled
TimeoutFires ==
    /\ \E call \in apiCall :
          /\ call.phase = "racing"
          /\ apiCall' = {[call EXCEPT !.phase = "settled"]}
    /\ apiOutcome' =
          {apiRequestCatch(ErrorObject("TimeoutError", "Request timed out"))}
    /\ UNCHANGED exceptApiVars

\* fetch rejects before the timeout: it could not connect
FetchRejects ==
    /\ \E call \in apiCall :
          /\ call.phase = "racing"
          /\ apiCall' = {[call EXCEPT !.phase = "settled"]}
    /\ \E message \in FetchFailures :
          apiOutcome' = {apiRequestCatch(ErrorObject("TypeError", message))}
    /\ UNCHANGED exceptApiVars

\* fetch resolves with a response before the timeout
FetchResolves ==
    /\ \E call \in apiCall :
          /\ call.phase = "racing"
          /\ apiCall' = {[call EXCEPT !.phase = "settled"]}
    /\ \E response \in Responses :
          apiOutcome' = {apiRequestResponse(response)}
    /\ UNCHANGED exceptApiVars

NextApi ==
    \/ ApiRequest
    \/ TimeoutFires
    \/ FetchRejects
    \/ FetchResolves

\* apiRequest.
SpecApi == Init /\ [][NextApi]_vars

(***************************************************************************)
(* ErrorProvider and ErrorNotification.                                    *)
(***************************************************************************)
\* addError(error). The id, made of Date.now() and Math.random(), is one
\* no other error has: the ids are numbered in the order of the calls.
AddError ==
    /\ nextErrorId <= MaxErrors
    /\ \E input \in ErrorInputs :
          errors' = Append(errors, [id |-> nextErrorId,
                                    severity |-> input.severity,
                                    retry |-> input.retry])
    /\ errorCall' = {[op |-> "addError", id |-> nextErrorId]}
    /\ nextErrorId' = nextErrorId + 1
    /\ effectPending' = TRUE
    /\ UNCHANGED timeouts
    /\ UNCHANGED exceptErrorVars

\* A click on the Dismiss button of an error shown: removeError(error.id)
Dismiss ==
    /\ \E k \in 1..Len(errors) :
          /\ errors' = removeError(errors, errors[k].id)
          /\ errorCall' = {[op |-> "dismiss", id |-> errors[k].id]}
    /\ effectPending' = TRUE
    /\ UNCHANGED <<timeouts, nextErrorId>>
    /\ UNCHANGED exceptErrorVars

\* A click on the Retry button of an error that has a retry function:
\* removeError(error.id), then the retry function is called
Retry ==
    /\ \E k \in 1..Len(errors) :
          /\ errors[k].retry
          /\ errors' = removeError(errors, errors[k].id)
          /\ errorCall' = {[op |-> "retry", id |-> errors[k].id]}
    /\ effectPending' = TRUE
    /\ UNCHANGED <<timeouts, nextErrorId>>
    /\ UNCHANGED exceptErrorVars

\* clearErrors()
ClearErrors ==
    /\ errors' = <<>>
    /\ errorCall' = {[op |-> "clearErrors", id |-> 0]}
    /\ effectPending' = TRUE
    /\ UNCHANGED <<timeouts, nextErrorId>>
    /\ UNCHANGED exceptErrorVars

\* The effect of ErrorNotification runs after errors changed: the timers of
\* the previous run are cleared and a timer is set for every error that is
\* dismissed automatically.
EffectRuns ==
    /\ effectPending
    /\ timeouts' = {errors[k].id : k \in {j \in 1..Len(errors) :
                                             autoDismissed(errors[j])}}
    /\ effectPending' = FALSE
    /\ UNCHANGED <<errors, nextErrorId, errorCall>>
    /\ UNCHANGED exceptErrorVars

\* A timer of ErrorNotification fires after 5 s: removeError(error.id)
DismissTimerFires ==
    /\ \E id \in timeouts :
          /\ errors' = removeError(errors, id)
          /\ timeouts' = timeouts \ {id}
          /\ errorCall' = {[op |-> "timer", id |-> id]}
    /\ effectPending' = TRUE
    /\ UNCHANGED nextErrorId
    /\ UNCHANGED exceptErrorVars

NextErrors ==
    \/ AddError
    \/ Dismiss
    \/ Retry
    \/ ClearErrors
    \/ EffectRuns
    \/ DismissTimerFires

\* The error notifications.
SpecErrors == Init /\ [][NextErrors]_vars

(***************************************************************************)
(* Claims about the XP / level ladder (checked under Spec).                *)
(***************************************************************************)
\* C1: after any sequence of updatePlayerProgress(xpEarned) calls with
\* xpEarned >= 0, from a profile with 0 <= xp < xpToNextLevel, the player
\* still has 0 <= xp < xpToNextLevel.
C1_XpBelowThreshold ==
    \A p \in player : 0 <= p.xp /\ p.xp < p.xpToNextLevel

\* The level-up step as the loop the claim describes: while the total is at
\* least the threshold, subtract it, add a level, grow the threshold by 1.5.
RECURSIVE LevelUpLoop(_, _, _)
LevelUpLoop(level, total, xpToNextLevel) ==
    IF total >= xpToNextLevel
    THEN LevelUpLoop(level + 1, total - xpToNextLevel,
                     MathRound(xpToNextLevel * 3, 2))
    ELSE <<level, total, xpToNextLevel>>

\* C2: one updatePlayerProgress(xpEarned) call on a player with
\* 0 <= xp < xpToNextLevel leaves the level, xp and threshold that the
\* level-up loop yields, so a reward crossing k thresholds adds k levels.
C2_LevelUpIsLoop ==
    \A c \in ladderCall : \A p \in player :
        (0 <= c.before.xp /\ c.before.xp < c.before.xpToNextLevel)
        => <<p.level, p.xp, p.xpToNextLevel>>
             = LevelUpLoop(c.before.level, c.before.xp + c.xpEarned,
                           c.before.xpToNextLevel)

\* r is x * 1.5 rounded to the nearest integer, a tie going up:
\* 1.5 x - 1/2 < r <= 1.5 x + 1/2.
IsThreeHalvesRounded(r, x) == 2 * r - 3 * x \in {0, 1}

\* The total crosses the threshold xpToNextLevel, and what is left does not
\* reach the next threshold (1.5 times the old one, rounded).
CrossesOnce(total, xpToNextLevel) ==
    /\ total >= xpToNextLevel
    /\ 2 * (total - xpToNextLevel) < 3 * xpToNextLevel

\* C3: when xp + xpEarned crosses the current threshold exactly once,
\* updatePlayerProgress yields level + 1, xp + xpEarned - xpToNextLevel and
\* the threshold round(xpToNextLevel * 1.5); level 1, xp 900, threshold 1000
\* with xpEarned 150 gives level 2, xp 50, threshold 1500.
C3_SingleLevelUp ==
    \A c \in ladderCall : \A p \in player :
        LET b == c.before
            total == b.xp + c.xpEarned
        IN  /\ CrossesOnce(total, b.xpToNextLevel)
               => /\ p.level = b.level + 1
                  /\ p.xp = total - b.xpToNextLevel
                  /\ IsThreeHalvesRounded(p.xpToNextLevel, b.xpToNextLevel)
            /\ (b.level = 1 /\ b.xp = 900 /\ b.xpToNextLevel = 1000
                    /\ c.xpEarned = 150)
               => (p.level = 2 /\ p.xp = 50 /\ p.xpToNextLevel = 1500)

\* C3 witness: the scenario has happened.
C3_Witness_Scenario ==
    \E c \in ladderCall : \E p \in player :
        /\ c.before.level = 1 /\ c.before.xp = 900
        /\ c.before.xpToNextLevel = 1000 /\ c.xpEarned = 150
        /\ p.level = 2 /\ p.xp = 50 /\ p.xpToNextLevel = 1500

\* C4: after any sequence of updatePlayerProgress calls the player's title
\* is getPlayerTitle(player.level).
C4_TitleMatchesLevel ==
    \A p \in player : p.title = getPlayerTitle(p.level)

(***************************************************************************)
(* Claims about the scoring utilities (checked under SpecScoring).         *)
(***************************************************************************)
\* C5: for every executionTime >= 0, optimalTime > 0, usedIndex,
\* indexRequired and hintsUsed >= 0, calculateChallengeScore returns a score
\* in [0, 100].
C5_ScoreInRange ==
    \A c \in calc :
        c.fn = "calculateChallengeScore"
        => \A r \in c.result : 0 <= r /\ r <= 100

\* C5 witness: a call whose hint penalty alone exceeds 100 returned 0.
C5_Witness_Floored ==
    \E c \in calc :
        /\ c.fn = "calculateChallengeScore"
        /\ c.hintsUsed * 10 > 100
        /\ c.result = {0}

\* n / d (n >= 0, d > 0) rounded to the nearest integer, a tie going up:
\* the r with n/d - 1/2 < r <= n/d + 1/2.
NearestInteger(n, d) ==
    CHOOSE r \in 0..(n \div d + 1) :
        2 * n - d < 2 * r * d /\ 2 * r * d <= 2 * n + d

\* The time penalty as the claim states it.
ClaimedTimePenalty(executionTime, optimalTime) ==
    IF executionTime > optimalTime
    THEN Min(30, NearestInteger(20 * (executionTime - optimalTime), optimalTime))
    ELSE 0

Clamp(x, lo, hi) == IF x < lo THEN lo ELSE IF x > hi THEN hi ELSE x

\* C7: calculateChallengeScore is 100 - timePenalty - indexPenalty -
\* 10 * hintsUsed clamped to [0, 100], with timePenalty =
\* min(30, round((executionTime / optimalTime - 1) * 20)) when the query is
\* slower than optimal and indexPenalty = 20 exactly when an index is
\* required and not used; 1.2 s against 0.8 s, index required but unused,
\* one hint gives 60.
C7_ScoreFormula ==
    \A c \in calc :
        c.fn = "calculateChallengeScore"
        => \A r \in c.result :
              /\ r = Clamp(100 - ClaimedTimePenalty(c.executionTime, c.optimalTime)
                               - (IF c.indexRequired /\ ~c.usedIndex
                                  THEN 20 ELSE 0)
                               - 10 * c.hintsUsed,
                           0, 100)
              /\ (c.executionTime = 12 /\ c.optimalTime = 8
                      /\ c.indexRequired /\ ~c.usedIndex /\ c.hintsUsed = 1)
                 => r = 60

\* C7 witness: the scenario of the claim was scored.
C7_Witness_Scenario ==
    \E c \in calc :
        /\ c.fn = "calculateChallengeScore"
        /\ c.executionTime = 12 /\ c.optimalTime = 8
        /\ c.indexRequired /\ ~c.usedIndex /\ c.hintsUsed = 1
        /\ c.result = {60}

\* The base XP of a tier as the claim states it.
ClaimedBaseXp(difficulty) ==
    CASE difficulty = "beginner" -> 50
      [] difficulty = "intermediate" -> 100
      [] difficulty = "advanced" -> 200
      [] difficulty = "expert" -> 400

\* C9: for every tier and every integer score in 0..100,
\* calculateXpEarned(difficulty, score) = round((base * score / 100) / 5) * 5,
\* a multiple of 5 between 0 and base; beginner with score 60 gives 30.
C9_XpFormula ==
    \A c \in calc :
        (c.fn = "calculateXpEarned"
            /\ c.difficulty \in {"beginner", "intermediate", "advanced", "expert"})
        => \A r \in c.result :
              /\ r = NearestInteger(ClaimedBaseXp(c.difficulty) * c.score, 500) * 5
              /\ r % 5 = 0
              /\ 0 <= r /\ r <= ClaimedBaseXp(c.difficulty)
              /\ (c.difficulty = "beginner" /\ c.score = 60) => r = 30

\* C9 witness: beginner with score 60 was computed.
C9_Witness_Beginner60 ==
    \E c \in calc :
        /\ c.fn = "calculateXpEarned"
        /\ c.difficulty = "beginner" /\ c.score = 60
        /\ c.result = {30}

(***************************************************************************)
(* Claims about the evaluation service (checked under SpecSubmit).         *)
(***************************************************************************)
\* C6: an attempt whose correct flag is false gets the overall score 0.
C6_WrongAnswerScoresZero ==
    \A i \in 1..Len(submissions) :
        ~submissions[i].query.correct => submissions[i].result.score = 0

\* C8: two submitSolution evaluations with identical inputs return the same
\* score and the same xpEarned.
C8_SubmitDeterministic ==
    \A i, j \in 1..Len(submissions) :
        (submissions[i].levelId = submissions[j].levelId
            /\ submissions[i].query = submissions[j].query)
        => /\ submissions[i].result.score = submissions[j].result.score
           /\ submissions[i].result.xpEarned = submissions[j].result.xpEarned

(***************************************************************************)
(* Claims about level completion (checked under SpecProgress).             *)
(***************************************************************************)
\* The stored record after the call does not regress against the one before:
\* the score has not decreased and the best time has not increased.
NoRegress(before, after) ==
    /\ OrZero(after.score) >= OrZero(before.score)
    /\ before.score # {} => after.score # {}
    /\ \A t \in before.bestTime :
          after.bestTime # {} /\ \A u \in after.bestTime : u <= t

\* C10: across markLevelCompleted calls a level's stored best score never
\* decreases (the marked level's becomes max(old, new score)) and its stored
\* best time never increases.
C10_BestNeverRegresses ==
    \A c \in markCall :
        /\ Len(levelClusters) = Len(c.clusters)
        /\ \A i \in 1..Len(c.clusters) :
              /\ Len(levelClusters[i].levels) = Len(c.clusters[i].levels)
              /\ \A j \in 1..Len(c.clusters[i].levels) :
                    LET before == c.clusters[i].levels[j]
                        after == levelClusters[i].levels[j]
                    IN  /\ after.id = before.id
                        /\ NoRegress(before, after)
                        /\ before.id = c.levelId
                           => after.score = {Max(OrZero(before.score), c.score)}
        /\ \A before \in c.current :
              \E after \in currentLevel :
                  /\ after.id = before.id
                  /\ NoRegress(before, after)

\* C10 witness: an attempt scoring less than the stored best was recorded
\* on a level that has a best time, and the level kept both.
C10_Witness_LowerScore ==
    \E c \in markCall :
        \E i \in 1..Len(c.clusters) :
            \E j \in 1..Len(c.clusters[i].levels) :
                LET before == c.clusters[i].levels[j]
                    after == levelClusters[i].levels[j]
                IN  /\ before.id = c.levelId
                    /\ before.bestTime # {}
                    /\ c.score < OrZero(before.score)
                    /\ after.score = before.score
                    /\ after.bestTime = before.bestTime

C12_CompletedIsSticky ==
    \A c \in markCall :
        /\ \A i \in 1..Len(c.clusters) :
              \A j \in 1..Len(c.clusters[i].levels) :
                  c.clusters[i].levels[j].completed
                  => /\ levelClusters[i].levels[j].id
                            = c.clusters[i].levels[j].id
                     /\ levelClusters[i].levels[j].completed
        /\ \A before \in c.current :
              before.completed => \A after \in currentLevel : after.completed

\* C12 witness: a completed level was marked again with a score below 70
\* and is still completed, in the clusters and as the current level.
C12_Witness_LowScoreOnCompleted ==
    \E c \in markCall :
        /\ c.score < 70
        /\ \E i \in 1..Len(c.clusters) :
              \E j \in 1..Len(c.clusters[i].levels) :
                  /\ c.clusters[i].levels[j].id = c.levelId
                  /\ c.clusters[i].levels[j].completed
                  /\ levelClusters[i].levels[j].completed
        /\ \E before \in c.current :
              /\ before.id = c.levelId
              /\ before.completed
              /\ \E after \in currentLevel : after.completed

\* The completed levels of a cluster, counted from its level records.
CompletedCount(cluster) ==
    Cardinality({j \in 1..Len(cluster.levels) : cluster.levels[j].completed})

\* C13: after every markLevelCompleted call, the progress of every cluster
\* that has at least one level is round(100 * completed levels / levels),
\* the integer nearest to that quotient with halves going up.
C13_ProgressIsRecomputed ==
    markCall # {}
    => \A i \in 1..Len(levelClusters) :
          LET cluster == levelClusters[i]
              total == Len(cluster.levels)
          IN  total > 0
              => 2 * total * cluster.progress - total
                     <= 200 * CompletedCount(cluster)
                 /\ 200 * CompletedCount(cluster)
                     < 2 * total * cluster.progress + total

\* C13 witness: a call completed one more level of a cluster, and the
\* cluster's progress is no longer the value it was loaded with.
C13_Witness_ProgressChanged ==
    \E c \in markCall :
        \E i \in 1..Len(c.clusters) :
            /\ Len(c.clusters[i].levels) > 0
            /\ CompletedCount(levelClusters[i])
                   = CompletedCount(c.clusters[i]) + 1
            /\ levelClusters[i].progress # c.clusters[i].progress
            /\ levelClusters[i].progress # mockLevelClusters[i].progress

\* The orders in which n level records can be listed
LevelOrders(n) ==
    {f \in [1..n -> 1..n] : \A k \in 1..n : \E m \in 1..n : f[m] = k}

\* C14: recomputing a cluster's progress over the same level records in any
\* order yields the same percent, and applying markLevelCompleted with the
\* arguments of the last call once more changes no level record, no
\* cluster's progress and not the current level.
C14_Idempotent ==
    \A c \in markCall :
        /\ markLevelCompleted(levelClusters, c.levelId, c.score)
               = levelClusters
        /\ \A l \in currentLevel :
              l.id = c.levelId => markedLevel(l, c.score) = l
        /\ \A i \in 1..Len(levelClusters) :
              \A f \in LevelOrders(Len(levelClusters[i].levels)) :
                  LET reordered ==
                          [levelClusters[i] EXCEPT !.levels =
                              [k \in 1..Len(levelClusters[i].levels) |->
                                  levelClusters[i].levels[f[k]]]]
                      unknownId == 0
                  IN  markLevelCompleted(<<reordered>>, unknownId,
                                          c.score)[1].progress
                          = levelClusters[i].progress

\* C14 witness: the last call changed a level record and the progress of
\* its cluster, so that a second application had something to change.
C14_Witness_FirstCallChanged ==
    \E c \in markCall :
        \E i \in 1..Len(c.clusters) :
            \E j \in 1..Len(c.clusters[i].levels) :
                /\ c.clusters[i].levels[j].id = c.levelId
                /\ c.score > 0
                /\ levelClusters[i].levels[j] # c.clusters[i].levels[j]
                /\ levelClusters[i].progress # c.clusters[i].progress

(***************************************************************************)
(* Claims about the leaderboard (checked under SpecLeaderboard).           *)
(***************************************************************************)
\* The player ids of the leaderboard lists in ascending (code unit) order
PlayerIdsAscending ==
    << "currentPlayer", "friend1", "friend2", "friend3",
       "friend4", "player1", "player10", "player11",
       "player12", "player13", "player14", "player15",
       "player16", "player17", "player18", "player19",
       "player2", "player20", "player3", "player4",
       "player5", "player6", "player7", "player8",
       "player9" >>

IdIndex(id) ==
    CHOOSE k \in 1..Len(PlayerIdsAscending) : PlayerIdsAscending[k] = id

\* C15: the leaderboard list is ordered by xp descending, entries of equal
\* xp by ascending playerId.
C15_OrderedByXpThenId ==
    \A i, j \in 1..Len(leaderboardData) :
        i < j
        => \/ leaderboardData[i].xp > leaderboardData[j].xp
           \/ /\ leaderboardData[i].xp = leaderboardData[j].xp
              /\ IdIndex(leaderboardData[i].playerId)
                    <= IdIndex(leaderboardData[j].playerId)

\* C16: when the list was filtered by region and/or search text down to n
\* entries, the ranks displayed (entry.rank) are 1, 2, ..., n in list order.
C16_RanksDense ==
    \A v \in leaderboardView :
        (v.call.region # "all" \/ v.call.searchQuery # "")
        => \A i \in 1..Len(leaderboardData) : leaderboardData[i].rank = i

\* The entries a view draws from before the region and search filters: the
\* friends list in the friends view, the mock leaderboard's entries of the
\* player's region in the regional view, the mock leaderboard with the
\* player's entry in the global view.
SourceEntries(v) ==
    IF v.call.leaderboardType = "friends"
    THEN friendsLeaderboard(v.call.player)
    ELSE IF v.call.leaderboardType = "regional"
    THEN SelectSeq(mockLeaderboard, LAMBDA e : e.region = "Europe")
    ELSE IF v.call.player # {}
    THEN Append(mockLeaderboard,
                currentPlayerEntry(CHOOSE p \in v.call.player : TRUE,
                                   CHOOSE d \in v.randomDraw : TRUE))
    ELSE mockLeaderboard

\* The entry passes the filters that are set in the view. The region select
\* is offered in the global view only, and the region is taken as set there
\* only.
PassesFilters(e, v) ==
    /\ (v.call.leaderboardType = "global" /\ v.call.region # "all")
       => e.region = v.call.region
    /\ v.call.searchQuery # ""
       => includes(toLowerCase(e.playerName), toLowerCase(v.call.searchQuery))

\* C17: in every view, every displayed entry has the region that is set and
\* contains the search text that is set (case-insensitively), and every
\* source entry that passes the filters that are set is displayed.
C17_FiltersCompose ==
    \A v \in leaderboardView :
        /\ \A i \in 1..Len(leaderboardData) :
              PassesFilters(leaderboardData[i], v)
        /\ \A k \in 1..Len(SourceEntries(v)) :
              PassesFilters(SourceEntries(v)[k], v)
              => \E i \in 1..Len(leaderboardData) :
                    leaderboardData[i] = SourceEntries(v)[k]

\* C18: for the 1-based page p, getCurrentPageData returns the entries at
\* the (0-based) positions (p-1)*10 .. p*10-1 of the list that exist, at
\* most 10, and the empty list when p is beyond the last page; once a load
\* has set the list, totalPages is ceil(n / 10): the least t with 10 t >= n.
C18_Pagination ==
    LET n == Len(leaderboardData)
        p == currentPage
        page == getCurrentPageData
    IN  /\ Len(page) <= 10
        /\ \A k \in 1..10 :
              IF (p - 1) * 10 + k <= n
              THEN /\ k <= Len(page)
                   /\ page[k] = leaderboardData[(p - 1) * 10 + k]
              ELSE k > Len(page)
        /\ leaderboardView # {}
           => /\ 10 * totalPages >= n
              /\ 10 * (totalPages - 1) < n
              /\ p > totalPages => page = <<>>

\* C18 witness: entries are loaded, the current page is beyond the last
\* page and getCurrentPageData is the empty list.
C18_Witness_BeyondLastPage ==
    /\ leaderboardView # {}
    /\ Len(leaderboardData) > 0
    /\ currentPage > totalPages
    /\ getCurrentPageData = <<>>

\* C19: the rank reported for the current player is the player's position
\* in the filtered, sorted list.
C19_RankIsPosition ==
    \A i \in 1..Len(leaderboardData) :
        leaderboardData[i].isCurrentPlayer => leaderboardData[i].rank = i

(***************************************************************************)
(* Claims about xpEarned arguments (checked under SpecAnyXp).              *)
(***************************************************************************)
\* C20: updatePlayerProgress called with a negative xpEarned leaves the
\* player (level, xp and xpToNextLevel) as it was.
C20_NegativeXpRejected ==
    \A c \in ladderCall :
        c.xpEarned < 0
        => \A p \in player :
              /\ p.level = c.before.level
              /\ p.xp = c.before.xp
              /\ p.xpToNextLevel = c.before.xpToNextLevel

(***************************************************************************)
(* Claims about the player title (checked under SpecScoring).              *)
(***************************************************************************)
\* The thresholds of the title table
TitleThresholds == {1, 5, 10, 15, 20, 25, 30, 40, 50}

\* C22: for every level >= 1, getPlayerTitle(level) returns the title
\* attached to the highest threshold <= level of the table with thresholds
\* 1, 5, 10, 15, 20, 25, 30, 40, 50.
C22_TitleOfHighestThreshold ==
    \A c \in calc :
        (c.fn = "getPlayerTitle" /\ c.level >= 1 /\ c.result # {})
        => \E t \in TitleThresholds :
              /\ t <= c.level
              /\ \A u \in TitleThresholds : u <= c.level => u <= t
              /\ c.result = {PLAYER_TITLES[t]}

\* C22 witness: getPlayerTitle(45) returned 'Database Wizard', the title of
\* threshold 40, with eight thresholds at or below the level.
C22_Witness_Level45 ==
    \E c \in calc :
        /\ c.fn = "getPlayerTitle"
        /\ c.level = 45
        /\ c.result = {"Database Wizard"}

(***************************************************************************)
(* Claims about what markLevelCompleted leaves alone (SpecProgress) and    *)
(* about the current page (SpecLeaderboard).                               *)
(***************************************************************************)
\* C28: markLevelCompleted(levelId, score) changes only the level with that
\* id: every other level keeps its completed flag and its score, and every
\* cluster that does not contain the level keeps its progress, the progress
\* loaded from the service included.
C28_OnlyMarkedLevelChanges ==
    \A c \in markCall :
        \A i \in 1..Len(c.clusters) :
            LET before == c.clusters[i]
                after == levelClusters[i]
            IN  /\ \A j \in 1..Len(before.levels) :
                      before.levels[j].id # c.levelId
                      => /\ after.levels[j].completed
                               = before.levels[j].completed
                         /\ after.levels[j].score = before.levels[j].score
                /\ (\A j \in 1..Len(before.levels) :
                        before.levels[j].id # c.levelId)
                   => after.progress = before.progress

\* C29: under every interleaving of type, region and search changes, page
\* button clicks and completions of the leaderboard loads, currentPage is
\* within 1..max(1, totalPages), and a leaderboard that has entries does not
\* display an empty page.
C29_CurrentPageInRange ==
    /\ 1 <= currentPage
    /\ currentPage <= Max(1, totalPages)
    /\ Len(leaderboardData) > 0 => getCurrentPageData # <<>>

(***************************************************************************)
(* Claims about authentication (checked under SpecAuth).                   *)
(***************************************************************************)
\* C23: a ProtectedRoute renders its children only when the auth loading
\* check has finished, a user is authenticated and, if a role is required,
\* the user's role equals it; once loading has finished an unauthenticated
\* visitor is redirected to /login and a user of another role to
\* /unauthorized.
C23_ProtectedRoute ==
    \A requiredRole \in RequiredRoles :
        LET rendered == ProtectedRoute(requiredRole)
            authorized ==
                /\ user # {}
                /\ requiredRole # {} => \A u \in user : u.role \in requiredRole
        IN  /\ rendered = "children" <=> (~isLoading /\ authorized)
            /\ (~isLoading /\ user = {}) => rendered = "/login"
            /\ (~isLoading /\ user # {} /\ ~authorized)
               => rendered = "/unauthorized"

\* C23 witness: with the login finished and the demo user (role player)
\* signed in, a route without role and a player route render their
\* children and an admin route redirects to /unauthorized.
C23_Witness_SignedIn ==
    /\ authCall = {[op |-> "login", ok |-> TRUE]}
    /\ ~isLoading
    /\ user = {loginUserData}
    /\ ProtectedRoute({}) = "children"
    /\ ProtectedRoute({"player"}) = "children"
    /\ ProtectedRoute({"admin"}) = "/unauthorized"

\* C30: whenever isLoading is false, the in-memory user is non-null exactly
\* when a user record and a token are stored in localStorage.
C30_UserMatchesStorage ==
    ~isLoading
    => (user # {} <=> (localStorage["user"] # {} /\ localStorage["token"] # {}))

(***************************************************************************)
(* Claims about the challenge page (checked under SpecChallenge).          *)
(***************************************************************************)
\* C21: after any sequence of hint requests, from the mentor and from the
\* Reveal Hint button, 0 <= hintsUsed <= the number of hints of the
\* challenge.
C21_HintsUsedInRange ==
    challengeLevel # {}
    => (0 <= challengeHintsUsed /\ challengeHintsUsed <= hintsAvailable)

\* C26: when handleSubmitSolution receives a result, the navigation to the
\* results page is scheduled if and only if the score is 70 or more (a
\* lower score schedules nothing), and a result of 70 or more leads to the
\* results page.
C26_NavigateIffPassing ==
    /\ [][pendingSubmissions' # pendingSubmissions /\ received' # {}
          /\ Len(pendingSubmissions') < Len(pendingSubmissions)
          => \A result \in received' :
                /\ result.score >= 70
                   => navigateTimers' = Append(navigateTimers, ResultsPath)
                /\ result.score < 70 => navigateTimers' = navigateTimers]_vars
    /\ [][location' = ResultsPath /\ location # ResultsPath
          => /\ navigateTimers # <<>>
             /\ navigateTimers' = Tail(navigateTimers)]_vars
    /\ [][navigateTimers' # navigateTimers
          => \/ /\ navigateTimers' = Append(navigateTimers, ResultsPath)
                /\ \E result \in received' : result.score >= 70
             \/ /\ navigateTimers' = Tail(navigateTimers)
                /\ location' = ResultsPath]_vars
    /\ ((\E result \in received : result.score >= 70)
        ~> location = ResultsPath)

\* C26 witness: a result of exactly 70 was received and the results page is
\* shown.
C26_Witness_NavigatedAt70 ==
    /\ \E result \in received : result.score = 70
    /\ location = ResultsPath

\* C27: at most one submission is in flight per challenge page, it is in
\* flight exactly while isSubmitting is true, and its query is not blank.
C27_OneSubmissionInFlight ==
    /\ Len(pendingSubmissions) <= 1
    /\ location = ChallengePath
       => (isSubmitting <=> Len(pendingSubmissions) = 1)
    /\ \A k \in 1..Len(pendingSubmissions) :
          trim(pendingSubmissions[k].query) # ""

\* C27 witness: a handleSubmitSolution call made while a submission was in
\* flight returned at its guard.
C27_Witness_SecondCallIgnored ==
    /\ location = ChallengePath
    /\ isSubmitting
    /\ Len(pendingSubmissions) = 1
    /\ \E call \in submitCall : ~call.started /\ trim(call.query) # ""

(***************************************************************************)
(* Claims about apiRequest (checked under SpecApi).                        *)
(***************************************************************************)
\* C24: apiRequest resolves with the response body or rejects with an
\* ApiError, a NetworkError or a TimeoutError, never with another error.
C24_StandardizedErrors ==
    \A outcome \in apiOutcome :
        \/ outcome.kind = "resolved"
        \/ \A err \in outcome.error :
              err.name \in {"ApiError", "NetworkError", "TimeoutError"}

(***************************************************************************)
(* Claims about the error notifications (checked under SpecErrors).        *)
(***************************************************************************)
\* C25: a timer is set only for errors of severity info or warning, and an
\* error of severity error or critical leaves the list only by being
\* dismissed, retried or cleared.
C25_OnlyInfoAndWarningAutoDismissed ==
    /\ [](\A k \in 1..Len(errors) :
             errors[k].id \in timeouts
             => errors[k].severity \in {"info", "warning"})
    /\ [][\A k \in 1..Len(errors) :
             (/\ errors[k].severity \in {"error", "critical"}
              /\ \A j \in 1..Len(errors') : errors'[j] # errors[k])
             => \E call \in errorCall' :
                   \/ call.op = "clearErrors"
                   \/ /\ call.op \in {"dismiss", "retry"}
                      /\ call.id = errors[k].id]_vars

\* C25 witness: a timer has just removed an error, the effect has run again
\* and no timer is left, while an error of severity error and one of
\* severity critical are still in the list.
C25_Witness_CriticalStays ==
    /\ \E call \in errorCall : call.op = "timer"
    /\ ~effectPending
    /\ timeouts = {}
    /\ \E k \in 1..Len(errors) : errors[k].severity = "critical"
    /\ \E k \in 1..Len(errors) : errors[k].severity = "error"

====
